---- MODULE Spec2Model ----
(***************************************************************************)
(* A model of src/types.js: the Type factory, the Data builder, the Union  *)
(* builder with its case dispatch, and the built-in descriptors.           *)
(*                                                                         *)
(* JavaScript values are records of one shape:                             *)
(*   k     the kind: undefined, null, number, string, boolean, object,     *)
(*         array, function                                                 *)
(*   s     what String(v) yields (for a number, its literal; NaN is the    *)
(*         number whose literal is "NaN")                                  *)
(*   f     the own properties of an object or array (name -> value)        *)
(*   fresh TRUE for an object allocated by the call under consideration,   *)
(*         FALSE for an object that existed before the call                *)
(*   tag   the name of the constructor stored in the object's prototype    *)
(*         by setPrototype ("" for primitives)                             *)
(*   w     for a wrapper object made by Object(primitive), the kind of the *)
(*         wrapped primitive ("" otherwise)                                *)
(* Values are ordinary extensible values and property names are ordinary   *)
(* identifiers (no frozen objects, no integer-like or "__proto__" keys).   *)
(***************************************************************************)
EXTENDS Integers, Sequences, FiniteSets, TLC

VARIABLES console, last

vars == <<console, last>>

\* ---------------------------------------------------------------- bounds
\* Number literals offered as inputs are 0..MaxNum (and NaN).
MaxNum == 1
\* A construction is started only while fewer trace entries than this were
\* written.
MaxConsole == 3

\* ---------------------------------------------------------------- values
Prim(kind, str) ==
    [k |-> kind, s |-> str, f |-> <<>>, fresh |-> FALSE, tag |-> "", w |-> ""]

Undefined == Prim("undefined", "undefined")
Null == Prim("null", "null")
NaN == Prim("number", "NaN")
True == Prim("boolean", "true")
False == Prim("boolean", "false")
Num(str) == Prim("number", str)
Str(str) == Prim("string", str)

\* An object literal {..}: a new object whose prototype is Object.prototype.
NewObj(fields) ==
    [k |-> "object", s |-> "[object Object]", f |-> fields, fresh |-> TRUE,
     tag |-> "Object", w |-> ""]

\* An object that existed before the call.
OldObj(fields) == [NewObj(fields) EXCEPT !.fresh = FALSE]

\* The decimal literals String(n) of the numbers the model uses.
Lit == <<"0", "1", "2", "3", "4">>
NumLits == {Lit[i + 1] : i \in 0..MaxNum}

\* typeof v
TypeOf(v) ==
    CASE v.k = "null" -> "object"
      [] v.k = "array" -> "object"
      [] OTHER -> v.k

\* a === b : NaN is strictly equal to nothing, not even to itself; objects
\* are compared by identity, which the model decides by content.
StrictEq(a, b) ==
    /\ a.k = b.k
    /\ ~(a.k = "number" /\ (a.s = "NaN" \/ b.s = "NaN"))
    /\ a = b

\* !!v
Truthy(v) ==
    CASE v.k \in {"undefined", "null"} -> FALSE
      [] v.k = "number" -> v.s \notin {"0", "NaN"}
      [] v.k = "string" -> v.s # ""
      [] v.k = "boolean" -> v.s = "true"
      [] OTHER -> TRUE

\* v[key] for a value v that is neither undefined nor null.
Get(v, key) == IF key \in DOMAIN v.f THEN v.f[key] ELSE Undefined

\* ------------------------------------------------------------- predicates
isNotNull(x) == ~StrictEq(x, Undefined) /\ ~StrictEq(x, Null) /\ ~StrictEq(x, NaN)
isType(name, v) == isNotNull(v) /\ TypeOf(v) = name
isFunction(v) == isType("function", v)
isObject(v) == isType("object", v)
isString(v) == isType("string", v)
isNumber(v) == isType("number", v)
isBoolean(v) == isType("boolean", v)
isArray(v) == v.k = "array"

hasFields(fields, obj) ==
    IF isObject(obj) THEN \A i \in 1..Len(fields) : fields[i] \in DOMAIN obj.f
    ELSE FALSE


\* ------------------------------------------------- the native constructors
\* The outcome of a call: st is "ok" or the kind of error thrown, v the value
\* returned, log the trace entries written to the console by the call (kept
\* when the call throws), calls the handlers invoked with their argument.
R(st, v, log, calls) == [st |-> st, v |-> v, log |-> log, calls |-> calls]
Return(v) == R("ok", v, <<>>, <<>>)
Throw(kind) == R(kind, Undefined, <<>>, <<>>)

\* ToNumber of a string
StringToNumber(str) ==
    CASE str = "" -> Num("0")
      [] str \in {Lit[i] : i \in 1..Len(Lit)} -> Num(str)
      [] OTHER -> NaN

\* Number(v)
ToNumber(v) ==
    CASE v.k = "undefined" -> NaN
      [] v.k = "null" -> Num("0")
      [] v.k = "number" -> Num(v.s)
      [] v.k = "boolean" \/ v.w = "boolean" -> IF v.s = "true" THEN Num("1") ELSE Num("0")
      [] OTHER -> StringToNumber(v.s)

\* Object(v)
ToObject(v) ==
    CASE v.k \in {"undefined", "null"} -> NewObj(<<>>)
      [] v.k \in {"number", "string", "boolean"} ->
            [NewObj(<<>>) EXCEPT !.s = v.s, !.w = v.k,
                                 !.tag = CASE v.k = "number" -> "Number"
                                           [] v.k = "string" -> "String"
                                           [] OTHER -> "Boolean"]
      [] OTHER -> v

NewArr(fields, str) ==
    [k |-> "array", s |-> str, f |-> fields, fresh |-> TRUE, tag |-> "Array", w |-> ""]

\* String(new Array(n)) is n-1 commas
Holes == <<"", "", ",", ",,", ",,,">>

\* Array(v): a number is a length (NaN is not a valid one), anything else the
\* single element.
ArrayOf(v) ==
    CASE v.k = "number" /\ v.s = "NaN" -> Throw("native")
      [] v.k = "number" ->
            Return(NewArr(<<>>, Holes[(CHOOSE i \in 1..Len(Lit) : Lit[i] = v.s)]))
      [] OTHER ->
            Return(NewArr([i \in {"0"} |-> v],
                          IF v.k \in {"undefined", "null"} THEN "" ELSE v.s))

\* -------------------------------------------------------- function values
\* A function (or a definition object) is a record of one shape: fn says which
\* code it runs, name is the name it was given, def is a sequence of
\* <<key, function>> pairs: the closed-over definition, or for a plain object
\* its entries in insertion order.
Fn(code) == [fn |-> code, name |-> code, def |-> <<>>]
Closure(code, entries) == [fn |-> code, name |-> code, def |-> entries]

\* A plain object {k1: e1, ...} of a definition or of handlers.
Mapping(entries) == Closure("mapping", entries)
\* Things that are neither objects nor functions.
Five == Fn("five")
NullDef == Fn("null")
NoFn == Fn("undefined")

Callables ==
    {"Type", "is", "typecheckData", "constructData", "String", "Object",
     "Number", "Boolean", "Array", "isString", "isObject", "isNumber",
     "isBoolean", "isArray", "identity", "anyPred", "nothingPred",
     "nothingCtor", "okPred", "okCtor", "errPred", "errCtor", "handler"}

\* isFunction / isObject of a definition entry
isFunctionDef(d) == d.fn \in Callables
isObjectDef(d) == d.fn = "mapping"
\* !!d
TruthyDef(d) == d.fn \notin {"undefined", "null"}

\* obj[key] of a plain object
Lookup(entries, key) ==
    IF \E i \in 1..Len(entries) : entries[i][1] = key
    THEN entries[CHOOSE i \in 1..Len(entries) : entries[i][1] = key][2]
    ELSE NoFn

\* Type(name, typecheck, constructor): the function obj[name]
Type(name, typecheck, constructor) ==
    [fn |-> "Type", name |-> name,
     def |-> << <<"typecheck", typecheck>>,
                <<"constructor", IF constructor.fn = "undefined"
                                 THEN Fn("identity") ELSE constructor>> >>]

\* type.is : a method only Type functions have
IsMethod(type) ==
    IF type.fn = "Type" THEN Closure("is", << <<"of", type>> >>) ELSE NoFn

StringType == Type("String", Fn("isString"), Fn("String"))
ObjectType == Type("Object", Fn("isObject"), Fn("Object"))
NumberType == Type("Number", Fn("isNumber"), Fn("Number"))
BooleanType == Type("Boolean", Fn("isBoolean"), Fn("Boolean"))
ArrayType == Type("Boolean", Fn("isArray"), Fn("Array"))

AnyType == Type("Any", Fn("anyPred"), NoFn)
NothingType == Type("Nothing", Fn("nothingPred"), Fn("nothingCtor"))
SuccessType == Type("Ok", Fn("okPred"), Fn("okCtor"))
ErrorType == Type("Error", Fn("errPred"), Fn("errCtor"))

typeMap ==
    [String |-> StringType, Object |-> ObjectType, Number |-> NumberType,
     Boolean |-> BooleanType, Array |-> ArrayType]

getTypecheckedCounterpart(constructor) ==
    IF constructor.fn \in DOMAIN typeMap THEN typeMap[constructor.fn]
    ELSE constructor

\* The value a Type function is when it is handled as data.
FunctionValue ==
    [k |-> "function", s |-> "function () {}", f |-> <<>>, fresh |-> FALSE,
     tag |-> "Function", w |-> ""]

\* setPrototype({constructor: obj[name]})(obj)
setPrototype(name, obj) ==
    IF isNotNull(obj) /\ obj.k \in {"object", "array", "function"}
    THEN [obj EXCEPT !.tag = name]
    ELSE obj

\* ------------------------------------------------------------ evaluation
RECURSIVE Call(_, _)
RECURSIVE TypeCall(_, _)
RECURSIVE IsCall(_, _)
RECURSIVE FailingFields(_, _, _)
RECURSIVE MapFields(_, _, _, _, _)

\* Type with the predicate applied to the raw value instead of the
\* normalized one.
TypeCallOnRaw(T, val) ==
    LET c == Call(T.def[2][2], val)
    IN  IF c.st # "ok" THEN c
        ELSE LET traced == Append(c.log, [name |-> T.name, v |-> c.v])
                 t == Call(T.def[1][2], val)
             IN  CASE t.st # "ok" -> R(t.st, Undefined, traced, <<>>)
                   [] Truthy(t.v) -> R("ok", setPrototype(T.name, c.v), traced, <<>>)
                   [] OTHER -> R("validation", Undefined, traced, <<>>)

\* Type with the trace written after the check instead of before it.
TypeCallTraceLast(T, val) ==
    LET c == Call(T.def[2][2], val)
    IN  IF c.st # "ok" THEN c
        ELSE LET traced == Append(c.log, [name |-> T.name, v |-> c.v])
                 t == Call(T.def[1][2], c.v)
             IN  CASE t.st # "ok" -> R(t.st, Undefined, c.log, <<>>)
                   [] Truthy(t.v) -> R("ok", setPrototype(T.name, c.v), traced, <<>>)
                   [] OTHER -> R("validation", Undefined, c.log, <<>>)

\* obj[name](val) of Type
TypeCall(T, val) ==
    LET typecheck == T.def[1][2]
        constructor == T.def[2][2]
        c == Call(constructor, val)
    IN  IF c.st # "ok" THEN c
        ELSE LET traced == Append(c.log, [name |-> T.name, v |-> c.v])
                 t == Call(typecheck, c.v)
             IN  CASE t.st # "ok" -> R(t.st, Undefined, traced, <<>>)
                   [] Truthy(t.v) -> R("ok", setPrototype(T.name, c.v), traced, <<>>)
                   [] OTHER -> R("validation", Undefined, traced, <<>>)

\* obj[name].is(v)
IsCall(T, v) ==
    IF /\ isNotNull(v)
       /\ Truthy(Get(v, "prototype"))
       /\ Truthy(Get(Get(v, "prototype"), "constructor"))
    THEN Return(IF StrictEq(Get(Get(v, "prototype"), "constuctor"), FunctionValue)
                THEN True ELSE False)
    ELSE Call(T.def[1][2], v)

\* typecheckData: the filter over Object.entries(typeDef) from entry i on:
\* 0 when no entry's type.is rejects val[key], 1 when some entry's does, or
\* the error of the first entry whose type.is cannot be called.
FailingFields(typeDef, val, i) ==
    IF i > Len(typeDef) THEN Return(Num("0"))
    ELSE LET r == Call(IsMethod(typeDef[i][2]), Get(val, typeDef[i][1]))
             rest == FailingFields(typeDef, val, i + 1)
         IN  CASE r.st # "ok" -> r
               [] rest.st # "ok" -> rest
               [] Truthy(r.v) -> rest
               [] OTHER -> Return(Num("1"))

typecheckData(typeDef, val) ==
    IF ~isObject(val) THEN Return(False)
    ELSE IF ~hasFields([i \in 1..Len(typeDef) |-> typeDef[i][1]], val)
    THEN Return(False)
    ELSE LET r == FailingFields(typeDef, val, 1)
         IN  IF r.st # "ok" THEN r
             ELSE Return(IF r.v.s = "0" THEN True ELSE False)

\* constructData: the map over Object.entries(typeDef) from entry i on, then
\* the reduce with toObject into a new object.
MapFields(typeDef, data, i, fields, log) ==
    IF i > Len(typeDef) THEN R("ok", NewObj(fields), log, <<>>)
    ELSE LET key == typeDef[i][1]
             r == Call(typeDef[i][2], Get(data, key))
         IN  IF r.st # "ok" THEN R(r.st, Undefined, log \o r.log, <<>>)
             ELSE MapFields(typeDef, data, i + 1,
                            [n \in DOMAIN fields \cup {key} |->
                                IF n = key THEN r.v ELSE fields[n]],
                            log \o r.log)

\* constructData reducing into a copy of the input's fields instead of {}.
constructDataOntoInput(typeDef, data) ==
    IF Len(typeDef) > 0 /\ data.k \in {"undefined", "null"} THEN Throw("native")
    ELSE MapFields(typeDef, data, 1, data.f, <<>>)

constructData(typeDef, data) ==
    IF Len(typeDef) > 0 /\ data.k \in {"undefined", "null"} THEN Throw("native")
    ELSE MapFields(typeDef, data, 1, <<>>, <<>>)

Bool(b) == IF b THEN True ELSE False

Call(F, arg) ==
    CASE F.fn = "Type" -> TypeCall(F, arg)
      [] F.fn = "is" -> IsCall(F.def[1][2], arg)
      [] F.fn = "typecheckData" -> typecheckData(F.def, arg)
      [] F.fn = "constructData" -> constructData(F.def, arg)
      [] F.fn = "String" -> Return(Str(arg.s))
      [] F.fn = "Object" -> Return(ToObject(arg))
      [] F.fn = "Number" -> Return(ToNumber(arg))
      [] F.fn = "Boolean" -> Return(Bool(Truthy(arg)))
      [] F.fn = "Array" -> ArrayOf(arg)
      [] F.fn = "isString" -> Return(Bool(isString(arg)))
      [] F.fn = "isObject" -> Return(Bool(isObject(arg)))
      [] F.fn = "isNumber" -> Return(Bool(isNumber(arg)))
      [] F.fn = "isBoolean" -> Return(Bool(isBoolean(arg)))
      [] F.fn = "isArray" -> Return(Bool(isArray(arg)))
      [] F.fn = "identity" -> Return(arg)
      [] F.fn = "anyPred" -> Return(Bool(isNotNull(arg)))
      [] F.fn = "nothingPred" -> Return(Bool(~isNotNull(arg)))
      [] F.fn = "nothingCtor" -> Return(Undefined)
      [] F.fn = "okPred" ->
            IF isObject(arg) /\ StrictEq(Get(arg, "ok"), True)
            THEN IsCall(AnyType, Get(arg, "value"))
            ELSE Return(False)
      [] F.fn = "okCtor" ->
            LET a == TypeCall(AnyType, arg)
            IN  IF a.st # "ok" THEN a
                ELSE R("ok", NewObj([ok |-> True, value |-> a.v]), a.log, <<>>)
      [] F.fn = "errPred" ->
            IF isObject(arg) /\ StrictEq(Get(arg, "ok"), False)
            THEN IsCall(StringType, Get(arg, "error"))
            ELSE Return(False)
      [] F.fn = "errCtor" ->
            Return(NewObj([ok |-> False, error |-> Str(arg.s)]))
      [] F.fn = "handler" ->
            R("ok", NewObj([handler |-> Str(F.name), value |-> arg]), <<>>,
              << <<F.name, arg>> >>)
      [] OTHER -> Throw("notCallable")


\* ------------------------------------------------------------- Data type
RECURSIVE normalizeEntries(_, _)
\* Object.entries(def).map(..) from entry i on
normalizeEntries(def, i) ==
    IF i > Len(def) THEN <<>>
    ELSE << <<def[i][1],
              IF isObjectDef(def[i][2])
              THEN Mapping(normalizeEntries(def[i][2].def, 1))
              ELSE getTypecheckedCounterpart(def[i][2])>> >>
         \o normalizeEntries(def, i + 1)

normalizeDefinition(def) == Mapping(normalizeEntries(def.def, 1))

isValidDataDefinition(typeDef) == isObjectDef(typeDef)

\* The outcome of a definition: st is "ok" or the kind of error, t the
\* descriptor returned.
Defined(t) == [st |-> "ok", t |-> t]
DefError(kind) == [st |-> kind, t |-> NoFn]

Data(name, typeDef) ==
    IF isValidDataDefinition(typeDef)
    THEN LET def == normalizeDefinition(typeDef)
         IN  Defined(Type(name, Closure("typecheckData", def.def),
                          Closure("constructData", def.def)))
    ELSE DefError("definition")

\* ------------------------------------------------------------ Union type
isValidUnionDefinition(def) ==
    \A i \in 1..Len(def.def) : isFunctionDef(def.def[i][2])

RECURSIVE Matches(_, _, _)
\* caseOf: the names of the entries of typeDef, from entry i on, whose type.is
\* accepts val, or the error of the first entry whose type.is cannot be called.
Matches(typeDef, val, i) ==
    IF i > Len(typeDef) THEN [st |-> "ok", names |-> <<>>]
    ELSE LET r == Call(IsMethod(typeDef[i][2]), val)
             rest == Matches(typeDef, val, i + 1)
         IN  CASE r.st # "ok" -> [st |-> r.st, names |-> <<>>]
               [] rest.st # "ok" -> rest
               [] Truthy(r.v) -> [st |-> "ok", names |-> <<typeDef[i][1]>> \o rest.names]
               [] OTHER -> rest

\* caseOf taking the last matching name instead of the first.
caseOfLastMatch(typeDef, val, opts) ==
    LET match == Matches(typeDef, val, 1)
    IN  IF match.st # "ok" THEN Throw(match.st)
        ELSE LET name == IF match.names = <<>> THEN "undefined"
                         ELSE match.names[Len(match.names)]
                 fn == Lookup(opts.def, name)
             IN  IF TruthyDef(fn) THEN Call(fn, val) ELSE Throw("dispatch")

caseOf(typeDef, val, opts) ==
    LET match == Matches(typeDef, val, 1)
    IN  IF match.st # "ok" THEN Throw(match.st)
        ELSE LET name == IF match.names = <<>> THEN "undefined" ELSE match.names[1]
                 fn == Lookup(opts.def, name)
             IN  IF TruthyDef(fn) THEN Call(fn, val) ELSE Throw("dispatch")

\* The object Union returns: its variant constructors are its entries, its
\* prototype's is and case close over the normalized definition.
Union(name, typeDef) ==
    CASE typeDef.fn = "null" -> DefError("native")
      [] isValidUnionDefinition(typeDef) ->
            LET def == normalizeDefinition(typeDef).def
            IN  Defined([fn |-> "union", name |-> name,
                         def |-> [i \in 1..Len(def) |->
                                    <<def[i][1],
                                      Type(def[i][1], IsMethod(def[i][2]), def[i][2])>>]])
      [] OTHER -> DefError("definition")

\* The normalized definition def that is and case close over: each variant
\* Type(name, type.is, type) keeps its entry of def as its constructor.
UnionDef(U) == [i \in 1..Len(U.def) |-> <<U.def[i][1], U.def[i][2].def[2][2]>>]

\* Union.is(x)
UnionIs(U, x) ==
    LET m == Matches(UnionDef(U), x, 1)
    IN  IF m.st # "ok" THEN Throw(m.st) ELSE Return(Bool(Len(m.names) > 0))

\* Union.case(v, opts)
UnionCase(U, v, opts) == caseOf(UnionDef(U), v, opts)


\* ---------------------------------------------------------------- inputs
One == Num("1")
Zero == Num("0")

RegularFunction ==
    [FunctionValue EXCEPT
        !.f = [n \in {"prototype"} |-> OldObj([constructor |-> FunctionValue])]]
ArrowFunction == FunctionValue

Objects ==
    { OldObj(<<>>),
      OldObj([x |-> One]),
      OldObj([x |-> One, y |-> Zero]),
      OldObj([x |-> One, y |-> Zero, z |-> One]),
      OldObj([x |-> One, y |-> Str("a")]),
      OldObj([x |-> One, y |-> Undefined]),
      OldObj([x |-> One, y |-> NaN]),
      OldObj([x |-> One, y |-> OldObj([x |-> One])]),
      OldObj([x |-> One, y |-> RegularFunction]),
      OldObj([p |-> OldObj([x |-> One])]),
      OldObj([p |-> OldObj(<<>>)]),
      [OldObj([x |-> One, y |-> Zero, z |-> One]) EXCEPT !.tag = "Planet"],
      OldObj([ok |-> True, value |-> One]),
      OldObj([ok |-> False, error |-> Str("a")]),
      [NewArr(<<>>, "") EXCEPT !.fresh = FALSE] }

Raw ==
    {Undefined, Null, NaN, True, False, Str(""), Str("a"), Str("1")}
    \cup {Num(l) : l \in NumLits}
    \cup Objects
    \cup {RegularFunction, ArrowFunction}

\* const Coord = Type('Coord', Number.is)
Coord == Type("Coord", IsMethod(NumberType), NoFn)

FieldSpecs ==
    {Fn("String"), Fn("Number"), Fn("Boolean"), Fn("Object"), Fn("Array"),
     NothingType, AnyType, Coord}

Pt == Data("Pt", Mapping(<< <<"x", Fn("Number")>> >>)).t

\* The definitions offered to Data and Union.
DataDefs ==
    { Mapping(<< <<"x", Fn("Number")>>, <<"y", b>> >>) : b \in FieldSpecs }
    \cup
    { Mapping(<<>>),
      Mapping(<< <<"x", Coord>>, <<"y", Coord>>, <<"z", Fn("Number")>> >>),
      Mapping(<< <<"x", Fn("Number")>>, <<"y", Pt>> >>),
      Mapping(<< <<"p", Pt>> >>),
      Mapping(<< <<"p", Mapping(<< <<"x", Fn("Number")>> >>)>> >>),
      Mapping(<< <<"x", Five>> >>),
      Five, NullDef, NumberType }

Point ==
    Data("Point", Mapping(<< <<"x", Coord>>, <<"y", Coord>>,
                             <<"z", Fn("Number")>> >>)).t

UnionDefs ==
    { Mapping(<< <<"Just", AnyType>>, <<"Nothing", NothingType>> >>),
      Mapping(<< <<"Ok", SuccessType>>, <<"Err", ErrorType>> >>),
      Mapping(<< <<"Planet", Point>>, <<"SolarSystem", Point>> >>),
      Mapping(<< <<"Num", Fn("Number")>>, <<"Obj", Fn("Object")>> >>),
      Mapping(<< <<"Raw", Fn("identity")>> >>),
      Mapping(<< <<"Any", AnyType>>, <<"Raw", Fn("identity")>> >>),
      Mapping(<< <<"Bad", Five>> >>),
      Mapping(<< <<"Nested", Mapping(<< <<"x", Fn("Number")>> >>)>> >>),
      Mapping(<<>>),
      Five, NullDef }

\* Every descriptor the definitions above yield.
DataTypes == {Data("D", d).t : d \in {e \in DataDefs : Data("D", e).st = "ok"}}
Unions == {Union("U", d).t : d \in {e \in UnionDefs : Union("U", e).st = "ok"}}
Variants == UNION {{U.def[i][2] : i \in 1..Len(U.def)} : U \in Unions}
Types ==
    {StringType, ObjectType, NumberType, BooleanType, ArrayType, AnyType,
     NothingType, SuccessType, ErrorType, Coord}
    \cup DataTypes \cup Variants

\* The handlers objects offered to case: a handler under each key of a set
\* of keys, each handler named after its key.
HandlerKeys(U) == {U.def[i][1] : i \in 1..Len(U.def)} \cup {"undefined"}
KeySeqs(U) ==
    LET keys == <<"undefined">> \o [i \in 1..Len(U.def) |-> U.def[i][1]]
    IN  keys
RECURSIVE HandlersOver(_, _, _)
HandlersOver(keys, chosen, i) ==
    IF i > Len(keys) THEN <<>>
    ELSE (IF keys[i] \in chosen
          THEN << <<keys[i], [Fn("handler") EXCEPT !.name = keys[i]]>> >>
          ELSE <<>>)
         \o HandlersOver(keys, chosen, i + 1)
Handlers(U) ==
    {Mapping(HandlersOver(KeySeqs(U), chosen, 1)) : chosen \in SUBSET HandlerKeys(U)}

\* ------------------------------------------------------------ the program
NoCall ==
    [op |-> "none", fn |-> NoFn, arg |-> Undefined, opts |-> NoFn,
     res |-> Return(Undefined), def |-> NoFn]

\* console is the number of trace entries written to the console so far (the
\* entries the last call wrote are last.res.log).
Init ==
    /\ console = 0
    /\ last = NoCall

Outcome(op, fn, arg, opts, res, def) ==
    [op |-> op, fn |-> fn, arg |-> arg, opts |-> opts, res |-> res, def |-> def]

\* Every call is made when no call is outstanding and runs to completion.

\* T(raw)
Construct ==
    /\ last.op = "none"
    /\ console < MaxConsole
    /\ \E T \in Types, raw \in Raw :
          LET res == TypeCall(T, raw)
          IN  /\ last' = Outcome("construct", T, raw, NoFn, res, NoFn)
              /\ console' = console + Len(res.log)

\* T.is(v)
Is ==
    /\ last.op = "none"
    /\ \E T \in Types, v \in Raw :
          LET res == IsCall(T, v)
          IN  /\ last' = Outcome("is", T, v, NoFn, res, NoFn)
              /\ console' = console + Len(res.log)

\* U.is(v)
IsOfUnion ==
    /\ last.op = "none"
    /\ \E U \in Unions, v \in Raw :
          LET res == UnionIs(U, v)
          IN  /\ last' = Outcome("unionIs", U, v, NoFn, res, NoFn)
              /\ console' = console + Len(res.log)

\* U.case(v, opts)
Case ==
    /\ last.op = "none"
    /\ \E U \in Unions, v \in Raw :
          \E opts \in Handlers(U) :
              LET res == UnionCase(U, v, opts)
              IN  /\ last' = Outcome("case", U, v, opts, res, NoFn)
                  /\ console' = console + Len(res.log)

\* Data(name, typeDef)
DefineData ==
    /\ last.op = "none"
    /\ \E d \in DataDefs :
          LET r == Data("D", d)
          IN  /\ last' = Outcome("Data", d, Undefined, NoFn, Throw(r.st), r.t)
              /\ UNCHANGED console

\* Union(name, typeDef)
DefineUnion ==
    /\ last.op = "none"
    /\ \E d \in UnionDefs :
          LET r == Union("U", d)
          IN  /\ last' = Outcome("Union", d, Undefined, NoFn, Throw(r.st), r.t)
              /\ UNCHANGED console

\* The caller takes the outcome and goes on to its next statement.
Continue ==
    /\ last.op # "none"
    /\ last' = NoCall
    /\ UNCHANGED console

Next ==
    \/ Construct
    \/ Is
    \/ IsOfUnion
    \/ Case
    \/ DefineData
    \/ DefineUnion
    \/ Continue

Spec == Init /\ [][Next]_vars

\* ------------------------------------------------------------ properties
Predicate(T) == T.def[1][2]
Normalize(T) == T.def[2][2]

\* The predicate of T accepts v / is a total function at v.
Accepts(T, v) ==
    LET r == Call(Predicate(T), v) IN r.st = "ok" /\ Truthy(r.v)
Decides(T, v) == Call(Predicate(T), v).st = "ok"

IsDataType(T) == T.fn = "Type" /\ Predicate(T).fn = "typecheckData"
FieldTypes(T) == Normalize(T).def
Declared(T) == {FieldTypes(T)[i][1] : i \in 1..Len(FieldTypes(T))}

\* The same value, whatever constructor its prototype names.
SameValue(a, b) == [a EXCEPT !.tag = ""] = [b EXCEPT !.tag = ""]

Constructed == last.op = "construct" /\ last.res.st = "ok"

\* C1: a Data constructor applied to a container that lacks a declared field
\* fails and returns no value, whatever the field types are.
C1_MissingFieldFails ==
    (/\ last.op = "construct"
     /\ IsDataType(last.fn)
     /\ isObject(last.arg)
     /\ \E n \in Declared(last.fn) : n \notin DOMAIN last.arg.f)
    => last.res.st # "ok"

\* The variants of a union whose predicate accepts v, by position.
Accepting(U, v) == {i \in 1..Len(U.def) : Accepts(U.def[i][2], v)}
AllDecide(U, v) == \A i \in 1..Len(U.def) : Decides(U.def[i][2], v)
FirstAccepting(U, v) ==
    U.def[CHOOSE i \in Accepting(U, v) : \A j \in Accepting(U, v) : i <= j][1]
HandlesAll(U, opts) ==
    \A i \in 1..Len(U.def) : TruthyDef(Lookup(opts.def, U.def[i][1]))

\* C2: when every variant predicate decides the value, at least one accepts it
\* and there is a handler for each variant, case invokes exactly the handler
\* of the first accepting variant in declaration order, with the value
\* unchanged, and returns that handler's result.
C2_CaseFirstMatch ==
    (/\ last.op = "case"
     /\ AllDecide(last.fn, last.arg)
     /\ Accepting(last.fn, last.arg) # {}
     /\ HandlesAll(last.fn, last.opts))
    => LET name == FirstAccepting(last.fn, last.arg)
       IN  /\ last.res.st = "ok"
           /\ last.res.calls = << <<name, last.arg>> >>
           /\ last.res.v = Call(Lookup(last.opts.def, name), last.arg).v

\* C2 witness: a case over a value that two variants accept.
C2_Witness ==
    /\ last.op = "case"
    /\ AllDecide(last.fn, last.arg)
    /\ Cardinality(Accepting(last.fn, last.arg)) > 1
    /\ HandlesAll(last.fn, last.opts)
    /\ last.res.st = "ok"

\* C3: case fails with a dispatch error and invokes no handler when the
\* handlers lack the first matching variant or when no variant accepts the
\* value, whatever other keys the handlers have.
C3_DispatchError ==
    (/\ last.op = "case"
     /\ AllDecide(last.fn, last.arg)
     /\ \/ Accepting(last.fn, last.arg) = {}
        \/ ~TruthyDef(Lookup(last.opts.def, FirstAccepting(last.fn, last.arg))))
    => last.res.st = "dispatch" /\ last.res.calls = <<>>

\* C4: T(raw) returns normalize(raw) exactly when predicate(normalize(raw))
\* is true, and fails with a validation error when it is false; a returned
\* value never fails the predicate.
C4_ConstructIffPredicate ==
    last.op = "construct" =>
        LET n == Call(Normalize(last.fn), last.arg)
            p == Call(Predicate(last.fn), n.v)
        IN  IF n.st = "ok" /\ p.st = "ok" /\ Truthy(p.v)
            THEN /\ last.res.st = "ok"
                 /\ SameValue(last.res.v, n.v)
                 /\ Accepts(last.fn, last.res.v)
            ELSE /\ last.res.st # "ok"
                 /\ (n.st = "ok" /\ p.st = "ok") => last.res.st = "validation"

\* C4 witness: a construction whose normalized value the predicate rejects.
C4_Witness ==
    /\ last.op = "construct"
    /\ last.res.st = "validation"
    /\ Call(Normalize(last.fn), last.arg).st = "ok"
    /\ Call(Normalize(last.fn), last.arg).v # last.arg

\* C5: T.is(x) is predicate(x) for every x, and T.is(T(v)) is true whenever
\* predicate(v) is true and T(v) succeeds.
C5_IsIsPredicate ==
    /\ last.op = "is" =>
          LET p == Call(Predicate(last.fn), last.arg)
          IN  /\ last.res.st = p.st
              /\ p.st = "ok" => Truthy(last.res.v) = Truthy(p.v)
    /\ (Constructed /\ Accepts(last.fn, last.arg)) =>
          LET r == IsCall(last.fn, last.res.v)
          IN  r.st = "ok" /\ Truthy(r.v)

\* C6: a successful Data construction returns a new container whose own
\* fields are exactly the declared ones, each holding fieldTypes[f](input[f]).
C6_DataConstruct ==
    (Constructed /\ IsDataType(last.fn)) =>
        /\ last.res.v.k = "object"
        /\ last.res.v.fresh
        /\ DOMAIN last.res.v.f = Declared(last.fn)
        /\ \A i \in 1..Len(FieldTypes(last.fn)) :
              LET key == FieldTypes(last.fn)[i][1]
                  r == Call(FieldTypes(last.fn)[i][2], Get(last.arg, key))
              IN  r.st = "ok" /\ last.res.v.f[key] = r.v

\* C6 witness: a successful construction from a container with an undeclared
\* field.
C6_Witness ==
    /\ Constructed
    /\ IsDataType(last.fn)
    /\ Declared(last.fn) # {}
    /\ \E n \in DOMAIN last.arg.f : n \notin Declared(last.fn)

\* C7: NaN is never reported as a valid Number and counts as absent:
\* NumberType.is(NaN) and AnyType.is(NaN) are false, NothingType.is(NaN) is
\* true, and NumberType(raw) never returns NaN.
C7_NaNIsNoNumber ==
    /\ (last.op = "is" /\ last.arg = NaN /\ last.fn \in {NumberType, AnyType})
          => (last.res.st = "ok" /\ ~Truthy(last.res.v))
    /\ (last.op = "is" /\ last.arg = NaN /\ last.fn = NothingType)
          => (last.res.st = "ok" /\ Truthy(last.res.v))
    /\ (Constructed /\ last.fn = NumberType) => last.res.v # NaN

NestedPlain ==
    Data("D", Mapping(<< <<"p", Mapping(<< <<"x", Fn("Number")>> >>)>> >>)).t
NestedData == Data("D", Mapping(<< <<"p", Pt>> >>)).t

\* C8: a Data type whose field is a nested plain mapping constructs and
\* validates like the Data type whose field is the nested Data type.
C8_NestedMappingIsData ==
    (last.fn = NestedPlain /\ last.op \in {"construct", "is"}) =>
        LET other == IF last.op = "construct"
                     THEN TypeCall(NestedData, last.arg)
                     ELSE IsCall(NestedData, last.arg)
        IN  /\ (last.res.st = "ok") = (other.st = "ok")
            /\ last.res.v = other.v

RECURSIVE WellFormedFields(_)
\* A plain mapping whose entries are callable or, recursively, such mappings.
WellFormedFields(d) ==
    /\ d.fn = "mapping"
    /\ \A i \in 1..Len(d.def) :
          isFunctionDef(d.def[i][2]) \/ WellFormedFields(d.def[i][2])

\* C9: a malformed definition is rejected by Data and Union themselves, and
\* a Data descriptor that was returned never fails later because an entry of
\* its definition cannot be called.
C9_DefinitionTime ==
    /\ (last.op = "Data" /\ ~WellFormedFields(last.fn))
          => last.res.st = "definition"
    /\ (last.op = "Union"
        /\ \E i \in 1..Len(last.fn.def) : ~isFunctionDef(last.fn.def[i][2]))
          => last.res.st = "definition"
    /\ (last.op \in {"construct", "is"} /\ IsDataType(last.fn))
          => last.res.st # "notCallable"

\* The trace entries the call in last' wrote itself, beyond those of its
\* normalize step.
FromNormalize == Call(Normalize(last'.fn), last'.arg)
OwnEntries == console' - console - Len(FromNormalize.log)
Calls == last.op = "none" /\ last'.op = "construct"

\* C10 (as stated): a construction call writes one trace entry of its own if
\* it succeeds and none if it fails validation.
C10_TraceOnlyOnSuccess ==
    [][Calls =>
         /\ last'.res.st = "ok" => OwnEntries = 1
         /\ last'.res.st = "validation" => OwnEntries = 0]_vars

\* C10 (amended): a construction call writes one trace entry of its own, the
\* type's name with the normalized value, as soon as its normalize step
\* returns, whether or not the predicate then accepts the value; it writes
\* none only when the normalize step itself fails.
C10_TraceIffNormalized ==
    [][Calls =>
         /\ OwnEntries = (IF FromNormalize.st = "ok" THEN 1 ELSE 0)
         /\ FromNormalize.st = "ok" =>
               last'.res.log[Len(last'.res.log)] =
                   [name |-> last'.fn.name, v |-> FromNormalize.v]]_vars

\* C10 witness: a construction that failed validation after writing its entry.
C10_Witness ==
    /\ last.op = "construct"
    /\ last.res.st = "validation"
    /\ Len(last.res.log) = 1 + Len(Call(Normalize(last.fn), last.arg).log)
    /\ console >= Len(last.res.log)
====
